---- MODULE Spec2Model ----
(***************************************************************************)
(* Smart door lock (Arduino Uno sketch, src/src/smart_door_lock.ino).       *)
(*                                                                         *)
(* The sketch is a single-threaded control loop.  Every call of loop() (and *)
(* the one call of setup()) is one action of the model and runs to          *)
(* completion, with every blocking delay() inside it advancing the clock.   *)
(* The passage of time between two calls of loop() is the action Elapse.    *)
(*                                                                         *)
(* Each C++ function is an operator from a machine record (the globals,     *)
(* the clock, the output pins, the servos) to the machine record it leaves. *)
(*                                                                         *)
(* inputBuffer is modelled by its valid part, the characters at positions   *)
(* [0, inputIndex) written since the last resetEntry(); the array cells at  *)
(* and beyond inputIndex are never read by the sketch (isPasswordCorrect is *)
(* only called with inputIndex = PASS_LEN).  inputIndex is kept as its own  *)
(* variable, as in the sketch.                                              *)
(*                                                                         *)
(* millis() is an unsigned long and the sketch reads it only in the two      *)
(* differences millis() - entryStartMs and millis() - lockoutStartMs, which *)
(* unsigned arithmetic keeps exact while less than 2^32 ms lie between the  *)
(* stamp and the read.  The model therefore keeps the two differences as    *)
(* its state, sinceEntry and sinceLockout, instead of the three absolute    *)
(* values.  Inside an action the machine record carries now, entryStartMs   *)
(* and lockoutStartMs on a clock that reads Horizon when the action starts, *)
(* so the operators read and stamp the clock as the sketch does.  A         *)
(* difference that has reached Horizon stays there: Horizon is beyond every *)
(* value either difference is compared with.                               *)
(*                                                                         *)
(* key, late and log record what the last call of setup()/loop() read and   *)
(* did; the sketch does not read them.                                      *)
(***************************************************************************)
EXTENDS Integers, Sequences, FiniteSets, TLC

\* ----------------------- Config (lines 66-82) -----------------------
PASSWORD == <<"1", "2", "3", "4", "5", "6", "7", "8">>
PASS_LEN == 8
IDLE_TIMEOUT_MS == 10000
LOCKOUT_MS == 15000
MAX_ATTEMPTS == 3
SERVO1_CLOSED == 0
SERVO1_OPEN == 90
SERVO2_CLOSED == 180
SERVO2_OPEN == 90
SERVO_STEP_DELAY_MS == 10

\* keypad.getKey() returns NO_KEY ('\0') when no key is pressed
NoKey == "NO_KEY"
\* the 4x4 key map
KeyMap == {"1", "2", "3", "A", "4", "5", "6", "B", "7", "8", "9", "C", "*", "0", "#", "D"}

\* a servo that has not been written to yet
NoAngle == -1

\* the blocking time of the "Password short" notice
ShortNoticeMs == 1000

\* ----------------------- Bounds of the model -----------------------
\* a pause between two calls of loop(), in ms
Gap == 4000
\* the value at which the two clock differences saturate
Horizon == 16000

VARIABLES
  pc,              \* "setup" before setup() has run, "loop" afterwards
  state,           \* State state
  inputBuffer,     \* the valid part of char inputBuffer[]
  inputIndex,      \* int inputIndex
  failedAttempts,  \* int failedAttempts
  sinceEntry,      \* millis() - entryStartMs, saturated at Horizon
  sinceLockout,    \* millis() - lockoutStartMs, saturated at Horizon
  servo1,          \* last angle written to servo1
  servo2,          \* last angle written to servo2
  ledRed,          \* level of PIN_LED_RED
  ledGrn,          \* level of PIN_LED_GRN
  key,             \* the key handleKeypad() got in the last loop(), NoKey if none
  late,            \* the last loop() began in PROMPT/ENTRY with the idle timeout exceeded
  log              \* the outputs and state assignments of the last setup()/loop(), in order

vars == <<pc, state, inputBuffer, inputIndex, failedAttempts, sinceEntry,
          sinceLockout, servo1, servo2, ledRed, ledGrn, key, late, log>>

Min(a, b) == IF a < b THEN a ELSE b

\* the machine as one record
Cur ==
  [state |-> state, inputBuffer |-> inputBuffer, inputIndex |-> inputIndex,
   failedAttempts |-> failedAttempts, entryStartMs |-> Horizon - sinceEntry,
   lockoutStartMs |-> Horizon - sinceLockout, now |-> Horizon, servo1 |-> servo1,
   servo2 |-> servo2, ledRed |-> ledRed, ledGrn |-> ledGrn, key |-> NoKey,
   log |-> <<>>]

Commit(m) ==
  /\ state' = m.state
  /\ inputBuffer' = m.inputBuffer
  /\ inputIndex' = m.inputIndex
  /\ failedAttempts' = m.failedAttempts
  /\ sinceEntry' = Min(m.now - m.entryStartMs, Horizon)
  /\ sinceLockout' = Min(m.now - m.lockoutStartMs, Horizon)
  /\ servo1' = m.servo1
  /\ servo2' = m.servo2
  /\ ledRed' = m.ledRed
  /\ ledGrn' = m.ledGrn
  /\ key' = m.key
  /\ late' = (state \in {"PROMPT", "ENTRY"} /\ sinceEntry > IDLE_TIMEOUT_MS)
  /\ log' = m.log

\* ----------------------- Primitives -----------------------
Out(m, dev, val) == [m EXCEPT !.log = Append(@, <<dev, val>>)]

delay(m, ms) == [m EXCEPT !.now = @ + ms]

SetState(m, st) == Out([m EXCEPT !.state = st], "state", st)

ServoWrite(m, sv, pos) == Out([m EXCEPT ![sv] = pos], sv, pos)

\* ----------------------- Helpers -----------------------
ledsOff(m) == Out([m EXCEPT !.ledRed = "LOW", !.ledGrn = "LOW"], "led", "off")

ledGranted(m) == Out([m EXCEPT !.ledRed = "LOW", !.ledGrn = "HIGH"], "led", "granted")

ledDenied(m) == Out([m EXCEPT !.ledGrn = "LOW", !.ledRed = "HIGH"], "led", "denied")

beepSuccess(m) == delay(Out(m, "beep", "success"), 170 + 200)

beepError(m) == delay(Out(m, "beep", "error"), 350)

beepLockout(m) == delay(Out(m, "beep", "lockout"), 3 * 300)

lcdHeader(m, line1) == Out(m, "lcd", line1)

resetEntry(m) ==
  [m EXCEPT !.inputIndex = 0, !.inputBuffer = <<>>, !.entryStartMs = m.now]

printMaskedProgress(m) == Out(m, "masked", m.inputIndex)

\* isPasswordCorrect with the loop stopping one position early
isPasswordCorrect_OneShort(m) ==
  \A i \in 1..(PASS_LEN - 1) : m.inputBuffer[i] = PASSWORD[i]

RECURSIVE PasswordLoop(_, _)
PasswordLoop(buf, i) ==
  IF i >= PASS_LEN THEN TRUE
  ELSE IF buf[i + 1] # PASSWORD[i + 1] THEN FALSE
  ELSE PasswordLoop(buf, i + 1)

isPasswordCorrect(m) == PasswordLoop(m.inputBuffer, 0)

\* the comparisons of the loop running through every remaining position
PasswordCompared_NoEarlyReturn(buf, i) ==
  IF i >= PASS_LEN THEN 0 ELSE PASS_LEN - i

\* How many times the for loop of isPasswordCorrect, entered at index i,
\* evaluates inputBuffer[i] != PASSWORD[i]: return false ends it.
RECURSIVE PasswordCompared(_, _)
PasswordCompared(buf, i) ==
  IF i >= PASS_LEN THEN 0
  ELSE IF buf[i + 1] # PASSWORD[i + 1] THEN 1
  ELSE 1 + PasswordCompared(buf, i + 1)

\* The for loop of moveServoSmooth: it writes fromDeg, fromDeg + step, ...,
\* toDeg - step, with a delay after each write (n = |toDeg - fromDeg| rounds).
ServoLoop(m, sv, fromDeg, toDeg, step) ==
  LET n == IF toDeg > fromDeg THEN toDeg - fromDeg ELSE fromDeg - toDeg
      writes == [i \in 1..n |-> <<sv, fromDeg + (i - 1) * step>>]
  IN  [m EXCEPT ![sv] = toDeg - step,
                !.log = @ \o writes,
                !.now = @ + n * SERVO_STEP_DELAY_MS]

moveServoSmooth(m, sv, fromDeg, toDeg) ==
  IF fromDeg = toDeg THEN m
  ELSE LET step == IF toDeg > fromDeg THEN 1 ELSE -1
       IN  ServoWrite(ServoLoop(m, sv, fromDeg, toDeg, step), sv, toDeg)

openDoor(m) ==
  moveServoSmooth(moveServoSmooth(m, "servo1", SERVO1_CLOSED, SERVO1_OPEN),
                  "servo2", SERVO2_CLOSED, SERVO2_OPEN)

closeDoor(m) ==
  moveServoSmooth(moveServoSmooth(m, "servo1", SERVO1_OPEN, SERVO1_CLOSED),
                  "servo2", SERVO2_OPEN, SERVO2_CLOSED)

\* ----------------------- State transitions -----------------------
\* goIdle also clearing failedAttempts
goIdle_ClearsAttempts(m) ==
  lcdHeader(SetState(resetEntry(closeDoor(ledsOff([m EXCEPT !.failedAttempts = 0]))),
                     "IDLE"), "System Idle")

goIdle(m) ==
  lcdHeader(SetState(resetEntry(closeDoor(ledsOff(m))), "IDLE"), "System Idle")

goPrompt(m) ==
  printMaskedProgress(
    lcdHeader(SetState(resetEntry(ledsOff(m)), "PROMPT"), "Enter Password:"))

\* goGranted without the closing half: closeDoor(), delay(500), goIdle()
goGranted_StaysOpen(m) ==
  LET m1 == beepSuccess(lcdHeader(ledGranted(SetState(m, "GRANTED")), "Access Granted"))
      m2 == delay(openDoor(m1), 2000)
  IN  delay(lcdHeader(m2, "Door Open"), 2000)

goGranted(m) ==
  LET m1 == beepSuccess(lcdHeader(ledGranted(SetState(m, "GRANTED")), "Access Granted"))
      m2 == delay(openDoor(m1), 2000)
      m3 == delay(lcdHeader(m2, "Door Open"), 2000)
      m4 == delay(closeDoor(m3), 500)
  IN  goIdle(m4)

\* goDenied with the lockout test failedAttempts > MAX_ATTEMPTS
goDenied_OneMore(m) ==
  LET m1 == delay(beepError(lcdHeader(ledDenied(SetState(m, "DENIED")), "Access Denied")),
                  1500)
      m2 == [m1 EXCEPT !.failedAttempts = @ + 1]
  IN  IF m2.failedAttempts > MAX_ATTEMPTS
      THEN ledDenied(beepLockout(lcdHeader(
             SetState([m2 EXCEPT !.lockoutStartMs = m2.now], "LOCKED"), "LOCKED OUT")))
      ELSE goPrompt(m2)

goDenied(m) ==
  LET m1 == delay(beepError(lcdHeader(ledDenied(SetState(m, "DENIED")), "Access Denied")),
                  1500)
      m2 == [m1 EXCEPT !.failedAttempts = @ + 1]
  IN  IF m2.failedAttempts >= MAX_ATTEMPTS
      THEN ledDenied(beepLockout(lcdHeader(
             SetState([m2 EXCEPT !.lockoutStartMs = m2.now], "LOCKED"), "LOCKED OUT")))
      ELSE goPrompt(m2)

\* submitKey treating a short buffer as a wrong code
submitKey_CountsShort(m) ==
  IF m.inputIndex = PASS_LEN /\ isPasswordCorrect(m)
  THEN goGranted([m EXCEPT !.failedAttempts = 0])
  ELSE goDenied(m)

\* handleKeypad, key == '#' (lines 257-272)
submitKey(m) ==
  IF m.inputIndex < PASS_LEN
  THEN printMaskedProgress(lcdHeader(
         delay(lcdHeader(m, "Password short"), ShortNoticeMs), "Enter Password:"))
  ELSE IF isPasswordCorrect(m)
       THEN goGranted([m EXCEPT !.failedAttempts = 0])
       ELSE goDenied(m)

\* charKey with the room test inputIndex <= PASS_LEN
charKey_OffByOne(m, k) ==
  IF m.inputIndex <= PASS_LEN
  THEN printMaskedProgress(
         [m EXCEPT !.inputBuffer = Append(@, k), !.inputIndex = @ + 1])
  ELSE Out(m, "tone", "reject")

\* handleKeypad, any other key (lines 274-280)
charKey(m, k) ==
  IF m.inputIndex < PASS_LEN
  THEN printMaskedProgress(
         [m EXCEPT !.inputBuffer = Append(@, k), !.inputIndex = @ + 1])
  ELSE Out(m, "tone", "reject")

\* handleKeypad stamping entryStartMs only for a key it does not reject
handleKeypad_StampOnAccept(m, k) ==
  IF k = NoKey THEN m
  ELSE
    LET rejected == k \notin {"*", "#"} /\ m.inputIndex >= PASS_LEN
        m1 == [m EXCEPT !.key = k,
                        !.entryStartMs = IF rejected THEN @ ELSE m.now]
    IN  IF k = "*" THEN goIdle(delay(lcdHeader(m1, "Cancelled"), 800))
        ELSE IF k = "#" THEN submitKey(m1)
        ELSE charKey(m1, k)

\* handleKeypad without entryStartMs = millis()
handleKeypad_NoRefresh(m, k) ==
  IF k = NoKey THEN m
  ELSE
    LET m1 == [m EXCEPT !.key = k]
    IN  IF k = "*" THEN goIdle(delay(lcdHeader(m1, "Cancelled"), 800))
        ELSE IF k = "#" THEN submitKey(m1)
        ELSE charKey(m1, k)

handleKeypad(m, k) ==
  IF k = NoKey THEN m
  ELSE
    LET m1 == [m EXCEPT !.key = k, !.entryStartMs = m.now]
    IN  IF k = "*" THEN goIdle(delay(lcdHeader(m1, "Cancelled"), 800))
        ELSE IF k = "#" THEN submitKey(m1)
        ELSE charKey(m1, k)

\* handleTimeout watching ENTRY only
handleTimeout_EntryOnly(m) ==
  IF m.state = "ENTRY" /\ m.now - m.entryStartMs > IDLE_TIMEOUT_MS
  THEN goIdle(delay(lcdHeader(m, "Timeout"), 800))
  ELSE m

\* handleTimeout firing already at the timeout itself
handleTimeout_AtDeadline(m) ==
  IF m.state \in {"PROMPT", "ENTRY"} /\ m.now - m.entryStartMs >= IDLE_TIMEOUT_MS
  THEN goIdle(delay(lcdHeader(m, "Timeout"), 800))
  ELSE m

handleTimeout(m) ==
  IF m.state \in {"PROMPT", "ENTRY"} /\ m.now - m.entryStartMs > IDLE_TIMEOUT_MS
  THEN goIdle(delay(lcdHeader(m, "Timeout"), 800))
  ELSE m

\* handleLockout measuring the lockout against the idle timeout
handleLockout_WrongDuration(m) ==
  LET elapsed == m.now - m.lockoutStartMs
  IN  IF elapsed >= IDLE_TIMEOUT_MS
      THEN goIdle(delay(lcdHeader([m EXCEPT !.failedAttempts = 0], "Unlocked"), 800))
      ELSE Out(m, "countdown", (LOCKOUT_MS - elapsed) \div 1000)

\* handleLockout without failedAttempts = 0
handleLockout_NoReset(m) ==
  LET elapsed == m.now - m.lockoutStartMs
  IN  IF elapsed >= LOCKOUT_MS
      THEN goIdle(delay(lcdHeader(m, "Unlocked"), 800))
      ELSE Out(m, "countdown", (LOCKOUT_MS - elapsed) \div 1000)

handleLockout(m) ==
  LET elapsed == m.now - m.lockoutStartMs
  IN  IF elapsed >= LOCKOUT_MS
      THEN goIdle(delay(lcdHeader([m EXCEPT !.failedAttempts = 0], "Unlocked"), 800))
      ELSE Out(m, "countdown", (LOCKOUT_MS - elapsed) \div 1000)

setup(m) ==
  goIdle(ServoWrite(ServoWrite(ledsOff(m), "servo1", SERVO1_CLOSED),
                    "servo2", SERVO2_CLOSED))

\* one call of loop(): motion is the PIR level, k what keypad.getKey() returns
loop(m, motion, k) ==
  IF m.state = "LOCKED" THEN handleLockout(m)
  ELSE IF m.state = "IDLE" THEN
    IF motion
    THEN SetState(goPrompt(delay(lcdHeader(m, "Motion Detected"), 700)), "ENTRY")
    ELSE m
  ELSE IF m.state \in {"PROMPT", "ENTRY"} THEN handleTimeout(handleKeypad(m, k))
  ELSE m

\* ----------------------- Inputs -----------------------
\* PASSWORD with the character at position j replaced by another key
WrongAt(j) == [i \in 1..PASS_LEN |-> IF i = j THEN "9" ELSE PASSWORD[i]]

\* PASSWORD backwards
Reversed == [i \in 1..PASS_LEN |-> PASSWORD[PASS_LEN + 1 - i]]

\* The codes a user types in the model: the password, the password backwards,
\* and the password with one wrong character at each position.
Codes == {PASSWORD, Reversed} \cup {WrongAt(j) : j \in 1..PASS_LEN}

\* The character keys pressed on a buffer buf: those that continue one of the
\* codes; on a full buffer, one more character key.
CharKeys(buf) ==
  IF Len(buf) < PASS_LEN
  THEN {c[Len(buf) + 1] : c \in {d \in Codes : SubSeq(d, 1, Len(buf)) = buf}}
  ELSE {"A"}

PolledKeys(buf) == {NoKey} \cup (KeyMap \cap ({"*", "#"} \cup CharKeys(buf)))

\* The pauses between two calls of loop(): Gap, or what brings the timer the
\* state reads right to, and right around, the instant it expires.
Pauses ==
  {Gap}
  \cup (IF state \in {"PROMPT", "ENTRY"}
        THEN {IDLE_TIMEOUT_MS - sinceEntry, IDLE_TIMEOUT_MS + 1 - sinceEntry}
        ELSE {})
  \cup (IF state = "LOCKED"
        THEN {LOCKOUT_MS - 1 - sinceLockout, LOCKOUT_MS - sinceLockout}
        ELSE {})

\* ----------------------- The machine -----------------------
Init ==
  /\ pc = "setup"
  /\ state = "IDLE"
  /\ inputBuffer = <<>>
  /\ inputIndex = 0
  /\ failedAttempts = 0
  /\ sinceEntry = 0
  /\ sinceLockout = 0
  /\ servo1 = NoAngle
  /\ servo2 = NoAngle
  /\ ledRed = "LOW"
  /\ ledGrn = "LOW"
  /\ key = NoKey
  /\ late = FALSE
  /\ log = <<>>

Setup ==
  /\ pc = "setup"
  /\ pc' = "loop"
  /\ Commit(setup(Cur))

\* time passes between two calls of loop()
Elapse ==
  /\ pc = "loop"
  /\ \E d \in Pauses :
       /\ d > 0
       /\ sinceEntry' = Min(sinceEntry + d, Horizon)
       /\ sinceLockout' = Min(sinceLockout + d, Horizon)
  /\ UNCHANGED <<pc, state, inputBuffer, inputIndex, failedAttempts,
                 servo1, servo2, ledRed, ledGrn, key, late, log>>

LoopLocked ==
  /\ pc = "loop"
  /\ state = "LOCKED"
  /\ \E motion \in BOOLEAN, k \in {NoKey, "A", "*", "#"} : Commit(loop(Cur, motion, k))
  /\ UNCHANGED pc

LoopIdle ==
  /\ pc = "loop"
  /\ state = "IDLE"
  /\ \E motion \in BOOLEAN, k \in {NoKey, "A", "*", "#"} : Commit(loop(Cur, motion, k))
  /\ UNCHANGED pc

LoopEntry ==
  /\ pc = "loop"
  /\ state \in {"PROMPT", "ENTRY"}
  /\ \E motion \in BOOLEAN, k \in PolledKeys(inputBuffer) : Commit(loop(Cur, motion, k))
  /\ UNCHANGED pc

Next == Setup \/ Elapse \/ LoopLocked \/ LoopIdle \/ LoopEntry

Spec == Init /\ [][Next]_vars

\* ----------------------- Vocabulary of the properties -----------------------
\* the design's ENTRY: the sketch's PROMPT and ENTRY, which loop() and
\* handleTimeout() treat alike
InEntry == state \in {"PROMPT", "ENTRY"}

\* the call recorded in l wrote val to dev
Did(l, dev, val) == \E i \in DOMAIN l : l[i][1] = dev /\ l[i][2] = val

\* the call recorded in l wrote to a servo
MovedServo(l) == \E i \in DOMAIN l : l[i][1] \in {"servo1", "servo2"}

\* a step that is one call of setup() or loop()
Tick == Setup \/ LoopLocked \/ LoopIdle \/ LoopEntry

\* a call of loop() that polled '#' on a full buffer
FullSubmit == InEntry /\ key' = "#" /\ inputIndex = PASS_LEN /\ LoopEntry

\* a call of loop() that went through DENIED
DeniedStep == InEntry /\ key' = "#" /\ Did(log', "state", "DENIED") /\ LoopEntry

\* a call of loop() that went through GRANTED
GrantedStep == Did(log', "state", "GRANTED") /\ Tick

\* the blocking time of beepLockout()
LockoutBeepMs == 3 * 300

\* the positions in l of the writes of val to dev
Idx(l, dev, val) == {i \in DOMAIN l : l[i][1] = dev /\ l[i][2] = val}

MinOf(S) == CHOOSE x \in S : \A y \in S : x <= y

MaxOf(S) == CHOOSE x \in S : \A y \in S : y <= x

\* the angle servo sv holds after the first i entries of l (it has been written)
ServoAfter(l, sv, i) == l[MaxOf({j \in 1..i : l[j][1] = sv})][2]

\* l shows the green LED switched on, later both servos at their open
\* positions, and later both servos at their closed positions
OpenThenClose(l) ==
  /\ Idx(l, "led", "granted") # {}
  /\ Idx(l, "servo2", SERVO2_OPEN) # {}
  /\ Idx(l, "servo2", SERVO2_CLOSED) # {}
  /\ LET g == MinOf(Idx(l, "led", "granted"))
         o == MinOf(Idx(l, "servo2", SERVO2_OPEN))
         c == MaxOf(Idx(l, "servo2", SERVO2_CLOSED))
     IN  /\ g < o
         /\ o < c
         /\ Idx(l, "servo1", SERVO1_OPEN) # {}
         /\ MinOf(Idx(l, "servo1", SERVO1_OPEN)) < o
         /\ ServoAfter(l, "servo1", o) = SERVO1_OPEN
         /\ ServoAfter(l, "servo1", c) = SERVO1_CLOSED

\* the keys that are stored
IsCharKey(k) == k \notin {NoKey, "*", "#"}

\* ----------------------- Properties -----------------------
\* C1: a '#' polled in PROMPT/ENTRY on a full buffer goes through GRANTED if
\* and only if the buffer equals PASSWORD at all PASS_LEN positions, and
\* through DENIED otherwise; a denied submit writes to no servo, and no call
\* of loop() goes through GRANTED other than a submit of the password.
C1_SubmitDecides ==
  [][/\ FullSubmit =>
          /\ Did(log', "state", "GRANTED")
               <=> (\A i \in 1..PASS_LEN : inputBuffer[i] = PASSWORD[i])
          /\ Did(log', "state", "DENIED")
               <=> (\E i \in 1..PASS_LEN : inputBuffer[i] # PASSWORD[i])
          /\ Did(log', "state", "DENIED") => ~MovedServo(log')
     /\ GrantedStep => FullSubmit /\ inputBuffer = PASSWORD
    ]_vars

\* a code wrong only at its last position was submitted and denied
C1_Witness ==
  /\ key = "#"
  /\ Did(log, "state", "DENIED")
  /\ state = "LOCKED"
  /\ inputBuffer = WrongAt(PASS_LEN)

\* C2: a call that goes through DENIED adds exactly 1 to failedAttempts; if
\* that makes MAX_ATTEMPTS it ends LOCKED with the lockout timer started when
\* LOCKED was set (beepLockout has run since), otherwise it ends in
\* PROMPT/ENTRY with an empty buffer and the idle timer restarted.  The first
\* denial after a reset ends in PROMPT/ENTRY with failedAttempts = 1, the
\* third ends LOCKED.
C2_DeniedCounts ==
  [][DeniedStep =>
       /\ failedAttempts' = failedAttempts + 1
       /\ IF failedAttempts' = MAX_ATTEMPTS
          THEN state' = "LOCKED" /\ sinceLockout' = LockoutBeepMs
          ELSE InEntry' /\ inputBuffer' = <<>> /\ inputIndex' = 0 /\ sinceEntry' = 0
       /\ failedAttempts = 0 => InEntry' /\ failedAttempts' = 1
       /\ failedAttempts = MAX_ATTEMPTS - 1 => state' = "LOCKED"
    ]_vars

\* the first denial after a reset has just returned to the prompt
C2_Witness ==
  /\ Did(log, "state", "DENIED")
  /\ InEntry
  /\ failedAttempts = 1
  /\ inputIndex = 0
  /\ sinceEntry = 0

C4_AttemptsRange ==
  /\ failedAttempts \in 0..MAX_ATTEMPTS
  /\ state \in {"IDLE", "PROMPT", "ENTRY", "GRANTED"} => failedAttempts < MAX_ATTEMPTS

\* the lockout has expired and loop() has returned to IDLE
C4_Witness ==
  /\ state = "IDLE"
  /\ Did(log, "lcd", "Unlocked")
  /\ failedAttempts = 0

\* C5: failedAttempts changes only by the +1 of a denial and by being set to
\* 0 in a call that goes through GRANTED or that leaves LOCKED for IDLE, and
\* both of those set it to 0; cancel, idle timeout, short submit, character
\* keys and motion leave it as it is.
C5_ResetOnlyOnGrantOrExpiry ==
  [][/\ failedAttempts' # failedAttempts =>
          \/ DeniedStep /\ failedAttempts' = failedAttempts + 1
          \/ failedAttempts' = 0 /\ (GrantedStep \/ (state = "LOCKED" /\ state' = "IDLE"))
     /\ GrantedStep => failedAttempts' = 0
     /\ (state = "LOCKED" /\ state' = "IDLE") => failedAttempts' = 0
    ]_vars

\* an entry session with two failed attempts behind it has timed out
C5_Witness ==
  /\ state = "IDLE"
  /\ Did(log, "lcd", "Timeout")
  /\ failedAttempts = MAX_ATTEMPTS - 1

\* C6: inputIndex, the length of the buffer, is in 0..PASS_LEN and neither
\* '*' nor '#' is ever stored; a character key polled on a full buffer
\* leaves the buffer and inputIndex unchanged.
C6_BufferBounds ==
  /\ [](/\ inputIndex \in 0..PASS_LEN
        /\ Len(inputBuffer) = inputIndex
        /\ \A i \in 1..Len(inputBuffer) : IsCharKey(inputBuffer[i]))
  /\ [][(InEntry /\ inputIndex = PASS_LEN /\ IsCharKey(key') /\ LoopEntry) =>
          UNCHANGED <<inputBuffer, inputIndex>>
       ]_vars

\* a character key was polled on a full buffer and rejected
C6_Witness ==
  /\ InEntry
  /\ inputIndex = PASS_LEN
  /\ key = "A"
  /\ Did(log, "tone", "reject")

\* C7: a '#' polled in PROMPT/ENTRY on a buffer shorter than PASS_LEN does
\* not go through DENIED and leaves state, failedAttempts, buffer, inputIndex,
\* LEDs and servos unchanged; the idle timer is restarted at the key (the
\* notice has blocked for ShortNoticeMs since).
C7_ShortSubmit ==
  [][(InEntry /\ key' = "#" /\ inputIndex < PASS_LEN /\ LoopEntry) =>
       /\ state' = state
       /\ UNCHANGED <<failedAttempts, inputBuffer, inputIndex>>
       /\ UNCHANGED <<servo1, servo2, ledRed, ledGrn>>
       /\ sinceEntry' = ShortNoticeMs
       /\ ~Did(log', "state", "DENIED")
       /\ Did(log', "lcd", "Password short")
    ]_vars

\* '#' was polled one character short of a full buffer
C7_Witness ==
  /\ InEntry
  /\ key = "#"
  /\ Did(log, "lcd", "Password short")
  /\ inputIndex = PASS_LEN - 1

\* C8: a call of loop() that goes through GRANTED switches the green LED
\* on, then brings both servos to their open positions, then to their closed
\* positions, and ends in IDLE with failedAttempts = 0, an empty buffer, both
\* LEDs off and both servos at their closed positions.
C8_GrantedCompletes ==
  [][GrantedStep =>
       /\ OpenThenClose(log')
       /\ state' = "IDLE"
       /\ failedAttempts' = 0
       /\ inputBuffer' = <<>>
       /\ inputIndex' = 0
       /\ ledRed' = "LOW"
       /\ ledGrn' = "LOW"
       /\ servo1' = SERVO1_CLOSED
       /\ servo2' = SERVO2_CLOSED
    ]_vars

\* the password was submitted and the call has returned
C8_Witness ==
  /\ key = "#"
  /\ Did(log, "state", "GRANTED")
  /\ Did(log, "servo1", SERVO1_OPEN)
  /\ state = "IDLE"

\* C9: a step from PROMPT/ENTRY shows the timeout only if no key was polled
\* and more than IDLE_TIMEOUT_MS have passed since the idle timer was
\* (re)started; a call of loop() that polls no key at such an instant does
\* time out; a timeout ends in IDLE with the buffer cleared and
\* failedAttempts unchanged.
C9_TimeoutExactly ==
  [][/\ (InEntry /\ Did(log', "lcd", "Timeout")) =>
          /\ key' = NoKey
          /\ sinceEntry > IDLE_TIMEOUT_MS
          /\ state' = "IDLE"
          /\ inputBuffer' = <<>>
          /\ inputIndex' = 0
          /\ failedAttempts' = failedAttempts
     /\ (InEntry /\ sinceEntry > IDLE_TIMEOUT_MS /\ key' = NoKey /\ LoopEntry) =>
          Did(log', "lcd", "Timeout")
    ]_vars

\* an entry session with characters typed has timed out
C9_Witness ==
  /\ late
  /\ key = NoKey
  /\ Did(log, "lcd", "Timeout")
  /\ state = "IDLE"
  /\ failedAttempts = 1

\* C10: a call of loop() that polls a key never times out, also when the
\* idle timeout was already exceeded when it began; its outcome is the
\* key's: cancel, submit, or the character stored (rejected on a full
\* buffer) with the idle timer restarted.
C10_KeyBeforeTimeout ==
  [][(InEntry /\ key' # NoKey /\ LoopEntry) =>
       /\ ~Did(log', "lcd", "Timeout")
       /\ key' = "*" => Did(log', "lcd", "Cancelled") /\ state' = "IDLE"
       /\ (key' = "#" /\ inputIndex < PASS_LEN) => Did(log', "lcd", "Password short")
       /\ (key' = "#" /\ inputIndex = PASS_LEN) =>
            Did(log', "state", "GRANTED") \/ Did(log', "state", "DENIED")
       /\ IsCharKey(key') =>
            /\ state' = state
            /\ sinceEntry' = 0
            /\ inputBuffer' = IF inputIndex < PASS_LEN
                              THEN Append(inputBuffer, key') ELSE inputBuffer
    ]_vars

\* a character key was polled after the idle timeout was exceeded, and stored
C10_Witness ==
  /\ late
  /\ InEntry
  /\ IsCharKey(key)
  /\ inputIndex = 4
  /\ sinceEntry = 0

\* a call of loop() that polled a character key on a full buffer
RejectedKey == InEntry /\ inputIndex = PASS_LEN /\ IsCharKey(key') /\ LoopEntry

\* C11: in IDLE, GRANTED, DENIED and LOCKED the buffer is empty.
C11_EmptyOutsideEntry ==
  state \in {"IDLE", "GRANTED", "DENIED", "LOCKED"} =>
    inputBuffer = <<>> /\ inputIndex = 0

\* C12 as claimed: a character key polled on a full buffer changes neither
\* state, buffer, failedAttempts nor the idle timer.
C12_RejectedKeyChangesNothing ==
  [][RejectedKey =>
       /\ state' = state
       /\ UNCHANGED <<inputBuffer, inputIndex, failedAttempts>>
       /\ sinceEntry' = sinceEntry
    ]_vars

\* C12 as amended: a character key polled on a full buffer leaves state,
\* buffer, failedAttempts, LEDs and servos unchanged and outputs only the
\* tone, but restarts the idle timer as every key does, so it postpones the
\* idle timeout.
C12_RejectedKeyRestartsTimer ==
  [][RejectedKey =>
       /\ state' = state
       /\ UNCHANGED <<inputBuffer, inputIndex, failedAttempts>>
       /\ UNCHANGED <<servo1, servo2, ledRed, ledGrn>>
       /\ log' = <<(<<"tone", "reject">>)>>
       /\ sinceEntry' = 0
    ]_vars

\* a character key was rejected on a full buffer after the idle timeout was
\* exceeded, and the session goes on with the timer restarted
C12_Witness ==
  /\ late
  /\ InEntry
  /\ inputIndex = PASS_LEN
  /\ Did(log, "tone", "reject")
  /\ sinceEntry = 0

\* a call of loop() in PROMPT or ENTRY that polls no key
QuietEntry ==
  /\ pc = "loop"
  /\ InEntry
  /\ Commit(loop(Cur, FALSE, NoKey))
  /\ UNCHANGED pc

\* what happens without the user: setup() returns, millis() advances and
\* loop() is called again; no key press and no motion is ever forced
Progress == Setup \/ Elapse \/ LoopLocked \/ QuietEntry

LiveSpec == Spec /\ WF_vars(Progress)

\* a call of loop() that polls a key
KeyPress == LoopEntry /\ key' # NoKey

\* C13: if from some point on no key is pressed, the controller is in IDLE
\* again and again (it is stuck in no state), and a cancel key polled in
\* PROMPT or ENTRY leads to IDLE within that call of loop(), whatever the
\* buffer holds.
C13_ReturnsToIdle ==
  /\ (<>[][~KeyPress]_vars) => []<>(state = "IDLE")
  /\ [][InEntry /\ key' = "*" /\ LoopEntry => state' = "IDLE"]_vars

\* a cancel key polled with two failures counted has led to IDLE
C13_Witness ==
  /\ state = "IDLE"
  /\ key = "*"
  /\ Did(log, "lcd", "Cancelled")
  /\ failedAttempts = MAX_ATTEMPTS - 1

\* ------------------------------ Door actuation ------------------------------
Servos == {"servo1", "servo2"}

ClosedAngle(sv) == IF sv = "servo1" THEN SERVO1_CLOSED ELSE SERVO2_CLOSED

OpenAngle(sv) == IF sv = "servo1" THEN SERVO1_OPEN ELSE SERVO2_OPEN

\* every servo write recorded in l commands the closed angle
OnlyClosedWrites(l) ==
  \A i \in DOMAIN l : l[i][1] \in Servos => l[i][2] = ClosedAngle(l[i][1])

\* the positions in l at which servo sv, stepping, arrives at angle v
Arrivals(l, sv, v) ==
  {i \in DOMAIN l : /\ i > 1
                     /\ l[i][1] = sv /\ l[i][2] = v
                     /\ l[i-1][1] = sv /\ l[i-1][2] # v}

\* the angle servo sv was last commanded to before entry i of l; pre is the
\* angle it held when the call began
PrevAngle(l, sv, i, pre) ==
  IF i > 1 /\ l[i-1][1] = sv THEN l[i-1][2]
  ELSE IF \E j \in 1..(i-1) : l[j][1] = sv THEN ServoAfter(l, sv, i-1)
  ELSE pre

\* C14: a call that begins with the door closed and does not open it (its
\* only door actuation is closeDoor()) commands no servo to any angle but
\* the closed one it holds.
C14_CloseWhenClosedIsNoMove ==
  [][(/\ servo1 = SERVO1_CLOSED
      /\ servo2 = SERVO2_CLOSED
      /\ ~Did(log', "state", "GRANTED")
      /\ Tick)
     => OnlyClosedWrites(log')
    ]_vars

\* C15: a call that goes through GRANTED makes each servo arrive at its open
\* angle exactly once and at its closed angle exactly once.
C15_OneOpenOneClose ==
  [][GrantedStep =>
       \A sv \in Servos :
         /\ Cardinality(Arrivals(log', sv, OpenAngle(sv))) = 1
         /\ Cardinality(Arrivals(log', sv, ClosedAngle(sv))) = 1
    ]_vars

\* the lockout the README states: 1 minute
README_LOCKOUT_MS == 60000

\* C16: LOCKED is not left while less than one minute has passed since the
\* lockout began (sinceLockout below Horizon is the exact elapsed time).
C16_LockedForOneMinute ==
  [][(/\ state = "LOCKED"
      /\ sinceLockout < Horizon
      /\ sinceLockout < README_LOCKOUT_MS)
     => state' = "LOCKED"
    ]_vars

\* C17: a call of setup() or loop() that does not go through GRANTED
\* commands the servos to their closed angles only.
C17_ClosedOutsideGranted ==
  [][~Did(log', "state", "GRANTED") /\ Tick => OnlyClosedWrites(log')]_vars

\* C18: every servo write of a call is at most one degree away from the angle
\* the servo was last commanded to (the first write after attach() excepted),
\* and the call leaves each servo at the closed angle all its door motions
\* end with.
C18_SingleStepsFromLastPosition ==
  [][Tick =>
       /\ \A i \in DOMAIN log' : \A sv \in Servos :
            log'[i][1] = sv =>
              LET p == PrevAngle(log', sv, i,
                                 IF sv = "servo1" THEN servo1 ELSE servo2)
              IN  p = NoAngle \/ log'[i][2] - p \in {-1, 0, 1}
       /\ MovedServo(log') =>
            servo1' = SERVO1_CLOSED /\ servo2' = SERVO2_CLOSED
    ]_vars

\* the least integer not below a / b
CeilDiv(a, b) == (a + b - 1) \div b

\* C19: a call of loop() in LOCKED before the lockout has expired shows
\* ceil((LOCKOUT_MS - elapsed) / 1000), and never 0.
C19_CountdownIsCeiling ==
  [][(state = "LOCKED" /\ sinceLockout < LOCKOUT_MS /\ LoopLocked) =>
       /\ Did(log', "countdown", CeilDiv(LOCKOUT_MS - sinceLockout, 1000))
       /\ ~Did(log', "countdown", 0)
    ]_vars

\* the first position at which buf differs from PASSWORD, PASS_LEN if none
FirstMismatch(buf) ==
  IF \E j \in 1..PASS_LEN : buf[j] # PASSWORD[j]
  THEN MinOf({j \in 1..PASS_LEN : buf[j] # PASSWORD[j]})
  ELSE PASS_LEN

\* C20 as claimed: every submission of a full buffer compares all PASS_LEN
\* positions, whatever the buffer holds.
C20_ComparesAllPositions ==
  [][FullSubmit => PasswordCompared(inputBuffer, 0) = PASS_LEN]_vars

\* C20 as amended: a submission of a full buffer compares the positions up to
\* and including the first mismatch and no further (all PASS_LEN only when
\* the first PASS_LEN - 1 characters match), and a comparison that stopped
\* at a mismatch denies.
C20_StopsAtFirstMismatch ==
  [][FullSubmit =>
       /\ PasswordCompared(inputBuffer, 0) = FirstMismatch(inputBuffer)
       /\ inputBuffer # PASSWORD => Did(log', "state", "DENIED")
       /\ inputBuffer = PASSWORD => PasswordCompared(inputBuffer, 0) = PASS_LEN
    ]_vars

\* a code wrong at its third position only has been denied after three
\* comparisons
C20_Witness ==
  /\ state = "LOCKED"
  /\ key = "#"
  /\ Did(log, "state", "DENIED")
  /\ inputBuffer = WrongAt(3)
  /\ PasswordCompared(inputBuffer, 0) = 3

====
